---- MODULE Spec2Model ----
(***************************************************************************)
(* Model of tools/tuning/tune.py ("tunomat"): Texel-style tuning of the    *)
(* evaluation parameters of an external UCI engine.                        *)
(*                                                                         *)
(* Four specifications share the definitions of this module:               *)
(*   SpecBatch   make_batches / make_chunks applied to bounded inputs      *)
(*   SpecEngine  run_engine(engine, tuning_options, test_positions) called *)
(*               as its signature (line 100) declares, against an engine   *)
(*               process whose output is chosen by the environment         *)
(*   Spec        the program as written: main, run_pass and the worker     *)
(*               jobs of the thread pool                                   *)
(*   SpecSearch  the search loop of main for every sequence of pass errors *)
(*               run_pass can return                                       *)
(***************************************************************************)
EXTENDS Integers, Sequences, FiniteSets, TLC

\* ------------------------------------------------------------------------
\* Bounds of the model
\* ------------------------------------------------------------------------

\* Largest corpus handed to make_batches under SpecBatch.
MaxCorpusB == 250

\* Largest worker count (batch_count) handed to make_batches under SpecBatch.
MaxWorkersB == 5

\* Largest batch handed to run_engine under SpecEngine (more than two chunks
\* of ChunkSize positions).
MaxBatchE == 201

\* Calls of run_engine on the same session under SpecEngine.
MaxCalls == 2

\* Inbound lines without the awaited token that one call of run_engine
\* reads and discards.
MaxNoise == 1

\* Number of tuning options of the configuration.
NumOptions == 2

\* The value the configuration gives every tuning option.
InitValue == 10

\* Largest aggregate error run_pass returns under SpecSearch (0..MaxErr).
MaxErr == 3

\* Largest corpus and worker count of the whole program under Spec.
MaxCorpus == 5

MaxWorkers == 3

\* ------------------------------------------------------------------------
\* Program constants
\* ------------------------------------------------------------------------

\* "option.remaining_skips += 8 * option.skip_count"
SkipFactor == 8

\* run_engine: "for chunk in make_chunks(test_positions, 100)".
ChunkSize == 100

\* TuningOption.steps: the default of the dataclass field.
InitSteps == 16

\* The engine's centipawn scores the environment answers with (besides the
\* dataclass default 0 of TestPosition.score).
ScoreValues == {-300, 300}

VARIABLES
    \* ---- configuration and corpus
    concurrent_workers, \* Config.concurrent_workers
    test_positions,     \* the corpus: a sequence of position ids (the objects)
    score,              \* score[p]: TestPosition.score of position p
    tuning_options,     \* config.tuning_options: a sequence of TuningOption
    \* ---- SpecBatch
    fpc,                \* "idle" | "init" | "batched" | "chunked"
    batches,            \* result of make_batches(test_positions, workers)
    chunks,             \* chunks[b]: result of make_chunks(batches[b], 100)
    \* ---- one call of run_engine and the engine process it talks to
    epc,                \* where run_engine is: "idle", "send_uci", ...
    ebatch,             \* its test_positions argument (position ids)
    eopt,               \* index of the option the setoption loop is at
    ech,                \* index of the chunk the eval loop is at
    eerr,               \* the exception "except Exception" caught, or "none"
    stdout_eof,         \* the engine's output stream has ended
    stdin_closed,       \* the engine no longer reads its input (it exited)
    \* ---- history of the call (read by the properties only)
    wire,               \* commands sent and awaited tokens received, in order
    noise,              \* lines read and discarded in this call
    mismatch,           \* a scores reply had the wrong number of integers
    ecalls,             \* calls of run_engine so far
    answered,           \* answered[p]: <<v>> when the engine answered v
                        \* for position p in this pass, else <<>>
    writes,             \* writes[p]: assignments to score[p] in this pass
    \* ---- main (tune.py 266-371)
    pc,                 \* where main is
    oi,                 \* the index i of "for i in range(len(options))"
    prev_value,         \* prev_value
    best_err,           \* best_err
    new_err,            \* new_err
    best_options,       \* best_options
    aliased,            \* config.tuning_options and best_options are one list
    improved,           \* improved
    retry_postponed,    \* retry_postponed
    result_file,        \* the values last written to tuning_result.yml
    engines,            \* engines[k]: "up" or "stopped" (Engine.stop done)
    si,                 \* the index of "for engine in engines" (finally)
    status,             \* "running" | "ok" | the exception main ended with
    \* ---- run_pass (tune.py 214-234)
    ppc,                \* where run_pass is; "idle" when it is not running
    pret,               \* the value run_pass returned
    worker_id,          \* worker_id of run_pass
    futures,            \* futures: one record per submitted job
    yielded,            \* the futures as_completed has handed out
    pass_no,            \* passes started so far (history)
    \* ---- history of the search (read by the properties only)
    trial,              \* the last trial: its error, best_err before, outcome
    min_err,            \* the smallest pass error seen so far
    skips_at_start,     \* remaining_skips of every option when the sweep began
    last_sweep,         \* how the last finished sweep ended
    decision,           \* what the loop did after it: "continue" | "halt"
    stops,              \* stops[k]: calls of Engine.stop on engines[k]
    sent_values,        \* the option values the last pass was called with
    best_values,        \* the option values of the pass that gave best_err
    before_trial,       \* value and direction of every option when the
                        \* trial that runs (or ran last) began
    ntrials,            \* ntrials[i]: sweeps in which option i was trialled
    nfails,             \* nfails[i]: its trials that failed in both directions
    fail_streak         \* fail_streak[i]: those at step 1 since its last commit

mainVars == <<pc, oi, prev_value, best_err, new_err, best_options, aliased,
              improved, retry_postponed, result_file, engines, si, status>>
passVars == <<ppc, pret>>
jobVars == <<worker_id, futures, yielded, pass_no>>
histVars == <<trial, min_err, skips_at_start, last_sweep, decision>>
cfgVars == <<concurrent_workers, test_positions, tuning_options>>
fnVars == <<fpc, batches, chunks>>
engVars == <<epc, ebatch, eopt, ech, eerr, stdout_eof, stdin_closed,
             wire, noise, mismatch, ecalls, answered>>
corpusVars == <<score, writes>>

trialVars == <<sent_values, best_values, before_trial, ntrials, nfails,
               fail_streak>>
obsVars == <<stops, trialVars>>

vars == <<cfgVars, fnVars, engVars, corpusVars, mainVars, passVars, jobVars,
         histVars, obsVars>>

Min(a, b) == IF a < b THEN a ELSE b
Max(a, b) == IF a > b THEN a ELSE b

\* Concatenation, in order, of a sequence of sequences.
RECURSIVE Flatten(_)
Flatten(ss) == IF ss = <<>> THEN <<>> ELSE Head(ss) \o Flatten(Tail(ss))

\* The values of a list of options, in list order.
ValuesOf(options) == [i \in 1..Len(options) |-> options[i].value]

\* Nothing observed yet about the trials of the options.
NoTrials ==
    /\ sent_values = <<>>
    /\ best_values = <<>>
    /\ before_trial = <<>>
    /\ ntrials = [i \in 1..NumOptions |-> 0]
    /\ nfails = [i \in 1..NumOptions |-> 0]
    /\ fail_streak = [i \in 1..NumOptions |-> 0]

\* ------------------------------------------------------------------------
\* Data (tune.py 38-56)
\* ------------------------------------------------------------------------

\* TuningOption(name, value) with the defaults of the dataclass. is_part and
\* orig_name only group the values in the result file and are left out.
TuningOption(name, value) ==
    [name |-> name, value |-> value, steps |-> InitSteps, direction |-> 1,
     improvements |-> 0, iterations |-> 0, remaining_skips |-> 0,
     skip_count |-> 0]

\* Config.tuning_options as Config.__init__ builds it.
InitialOptions == [i \in 1..NumOptions |-> TuningOption(i, InitValue)]

\* Every TestPosition is created with score = 0 and nothing written yet.
CorpusFresh ==
    /\ score = [p \in 1..Len(test_positions) |-> 0]
    /\ writes = [p \in 1..Len(test_positions) |-> 0]

\* main has not started, run_pass is not running.
MainIdle ==
    /\ pc = "idle"
    /\ oi = 0
    /\ prev_value = 0
    /\ best_err = 0
    /\ new_err = 0
    /\ best_options = <<>>
    /\ aliased = FALSE
    /\ improved = FALSE
    /\ retry_postponed = FALSE
    /\ result_file = <<>>
    /\ engines = <<>>
    /\ si = 0
    /\ status = "running"
    /\ ppc = "idle"
    /\ pret = 0
    /\ worker_id = 0
    /\ futures = <<>>
    /\ yielded = {}
    /\ pass_no = 0
    /\ trial = <<>>
    /\ min_err = 0
    /\ skips_at_start = <<>>
    /\ last_sweep = <<>>
    /\ decision = "none"
    /\ stops = <<>>
    /\ NoTrials

\* run_engine has not been called.
EngineIdle ==
    /\ epc = "idle"
    /\ ebatch = <<>>
    /\ eopt = 0
    /\ ech = 0
    /\ eerr = "none"
    /\ stdout_eof = FALSE
    /\ stdin_closed = FALSE
    /\ wire = <<>>
    /\ noise = 0
    /\ mismatch = FALSE
    /\ ecalls = 0
    /\ answered = [p \in 1..Len(test_positions) |-> <<>>]

\* ------------------------------------------------------------------------
\* make_chunks, make_batches (tune.py 142-153)
\* ------------------------------------------------------------------------

\* positions[i:j] of Python for 0 <= i <= j <= len(positions).
Slice(positions, i, j) == SubSeq(positions, i + 1, j)

\* The generator's loop "for i in range(0, max_length, chunk_size)" from
\* offset i on: yields positions[i:min(i + chunk_size, max_length)].
RECURSIVE ChunksFrom(_, _, _)
ChunksFrom(positions, chunk_size, i) ==
    LET max_length == Len(positions)
    IN  IF i >= max_length
        THEN <<>>
        ELSE <<Slice(positions, i, Min(i + chunk_size, max_length))>>
             \o ChunksFrom(positions, chunk_size, i + chunk_size)

\* A slice that loses its last element: positions[i:min(i+size, len) - 1].
make_chunksDropLast(positions, chunk_size) ==
    LET full == ChunksFrom(positions, chunk_size, 0)
    IN  [k \in 1..Len(full) |-> SubSeq(full[k], 1, Len(full[k]) - 1)]

make_chunks(positions, chunk_size) == ChunksFrom(positions, chunk_size, 0)

make_batches(positions, batch_count) ==
    LET max_length == Len(positions)
        batch_size == Max(1, max_length \div batch_count)
    IN  make_chunks(positions, batch_size)

\* ------------------------------------------------------------------------
\* SpecBatch: the two partition functions applied to every corpus size up
\* to MaxCorpusB and every worker count up to MaxWorkersB.
\* ------------------------------------------------------------------------

InitBatch ==
    /\ concurrent_workers \in 1..MaxWorkersB
    /\ \E n \in 0..MaxCorpusB : test_positions = [i \in 1..n |-> i]
    /\ tuning_options = InitialOptions
    /\ CorpusFresh
    /\ fpc = "init"
    /\ batches = <<>>
    /\ chunks = <<>>
    /\ EngineIdle
    /\ MainIdle

CallMakeBatches ==
    /\ fpc = "init"
    /\ batches' = make_batches(test_positions, concurrent_workers)
    /\ fpc' = "batched"
    /\ UNCHANGED <<mainVars, passVars, jobVars, histVars, cfgVars, chunks, engVars, corpusVars>>
    /\ UNCHANGED obsVars

CallMakeChunks ==
    /\ fpc = "batched"
    /\ chunks' = [b \in 1..Len(batches) |-> make_chunks(batches[b], ChunkSize)]
    /\ fpc' = "chunked"
    /\ UNCHANGED <<mainVars, passVars, jobVars, histVars, cfgVars, batches, engVars, corpusVars>>
    /\ UNCHANGED obsVars

NextBatch == CallMakeBatches \/ CallMakeChunks

SpecBatch == InitBatch /\ [][NextBatch]_vars

CeilDiv(a, b) == (a + b - 1) \div b

BatchSizes == [b \in 1..Len(batches) |-> Len(batches[b])]

\* C7: for n >= 1 and w >= 1 make_batches yields exactly min(n, w) batches,
\* each of ceil(n / w) positions except the last, which holds the remainder;
\* for n = 250 and w = 4 the sizes are 63, 63, 63, 61.
C7_CeilSplit ==
    (fpc # "init" /\ Len(test_positions) >= 1) =>
        LET n == Len(test_positions)
            w == concurrent_workers
        IN  /\ Len(batches) = Min(n, w)
            /\ \A b \in 1..(Len(batches) - 1) : Len(batches[b]) = CeilDiv(n, w)
            /\ (n = 250 /\ w = 4) => BatchSizes = <<63, 63, 63, 61>>

\* C8: the batches, and within each batch the chunks of at most 100
\* positions, are non-empty and contiguous, and concatenated in order they
\* give back the sequence they were cut from, every position exactly once.
C8_Partition ==
    /\ fpc # "init" =>
        /\ \A b \in 1..Len(batches) : batches[b] # <<>>
        /\ Flatten(batches) = test_positions
    /\ fpc = "chunked" =>
        \A b \in 1..Len(batches) :
            /\ \A c \in 1..Len(chunks[b]) :
                   /\ chunks[b][c] # <<>>
                   /\ Len(chunks[b][c]) <= ChunkSize
            /\ Flatten(chunks[b]) = batches[b]

\* Reached: a corpus cut into several batches, one of them into two chunks.
C8_Witness ==
    /\ fpc = "chunked"
    /\ Len(batches) >= 2
    /\ \E b \in 1..Len(batches) : Len(chunks[b]) >= 2

\* ------------------------------------------------------------------------
\* Engine session and run_engine (tune.py 76-139)
\* ------------------------------------------------------------------------

\* What the engine process can put on its output when wait_for_command reads
\* the next line: a line with the awaited token, a line without it, or the
\* end of the stream, with the process still reading its input ("eof_open")
\* or gone ("eof_exit").
LineKinds == {"match", "other", "eof_open", "eof_exit"}

\* Engine.wait_for_command(cmd) on one inbound line: "return" (cmd in line:
\* return line), "next" (keep reading) or "none" (the for loop over stdout
\* ends at end of file and the method returns None).
wait_for_command(kind) ==
    CASE kind = "match" -> "return"
      [] kind = "other" -> "next"
      [] OTHER -> "none"

Sent(cmd) == [ev |-> "send", cmd |-> cmd]
Received(tok) == [ev |-> "recv", tok |-> tok]

\* The chunks of the batch run_engine was given.
EChunks == make_chunks(ebatch, ChunkSize)

\* The scores lines the environment answers an eval of m positions with:
\* m - 1, m or m + 1 integers, alternating v and -v.
ScoreReplies(m) ==
    {[i \in 1..len |-> IF i % 2 = 1 THEN v ELSE -v] :
        len \in {l \in {m - 1, m, m + 1} : l >= 1}, v \in ScoreValues}

\* The engine has answered scores[i] for the i-th position of the chunk.
Answer(chunk, scores) ==
    [p \in DOMAIN answered |->
        IF \E i \in 1..Min(Len(chunk), Len(scores)) : chunk[i] = p
        THEN <<scores[CHOOSE i \in 1..Len(chunk) : chunk[i] = p]>>
        ELSE answered[p]]

\* "except Exception as error: log.error(str(error))", then "return results".
ECaught(error) ==
    /\ eerr' = error
    /\ epc' = "returned"

\* Engine.send_command(cmd), then continue at `next`: stdin.write raises
\* BrokenPipeError when the process has gone, which run_engine catches.
ESend(cmd, next) ==
    IF stdin_closed
    THEN /\ ECaught("BrokenPipeError")
         /\ UNCHANGED wire
    ELSE /\ wire' = Append(wire, Sent(cmd))
         /\ epc' = next
         /\ UNCHANGED eerr

\* The stream state after a line of this kind was read.
EStream(kind) ==
    /\ stdout_eof' = (stdout_eof \/ kind \in {"eof_open", "eof_exit"})
    /\ stdin_closed' = (stdin_closed \/ kind = "eof_exit")

\* The kinds of line the stream can still deliver.
ELines == IF stdout_eof THEN {"eof_open"} ELSE LineKinds

\* A caller invokes run_engine(engine, tuning_options, test_positions).
CallRunEngine ==
    /\ epc \in {"idle", "returned"}
    /\ ecalls < MaxCalls
    /\ ecalls' = ecalls + 1
    /\ epc' = "send_uci"
    /\ eopt' = 1
    /\ ech' = 1
    /\ eerr' = "none"
    /\ wire' = <<>>
    /\ noise' = 0
    /\ mismatch' = FALSE
    /\ answered' = [p \in DOMAIN answered |-> <<>>]
    /\ writes' = [p \in DOMAIN writes |-> 0]
    /\ UNCHANGED <<mainVars, passVars, jobVars, histVars, cfgVars, fnVars, ebatch, stdout_eof, stdin_closed, score>>
    /\ UNCHANGED obsVars

\* engine.send_command("uci")
ESendUci ==
    /\ epc = "send_uci"
    /\ ESend(<<"uci">>, "wait_uciok")
    /\ UNCHANGED <<mainVars, passVars, jobVars, histVars, cfgVars, fnVars, ebatch, eopt, ech, stdout_eof,
                   stdin_closed, noise, mismatch, ecalls, answered, corpusVars>>
    /\ UNCHANGED obsVars

\* engine.wait_for_command(tok), one line per step, then continue at `next`;
\* the return value (the line or None) is dropped.
EWait(tok, next) ==
    \E kind \in ELines :
        /\ kind = "other" => noise < MaxNoise
        /\ EStream(kind)
        /\ LET r == wait_for_command(kind)
           IN  /\ epc' = IF r = "next" THEN epc ELSE next
               /\ wire' = IF r = "return" THEN Append(wire, Received(tok))
                          ELSE wire
               /\ noise' = IF kind = "other" THEN noise + 1 ELSE noise
        /\ UNCHANGED <<mainVars, passVars, jobVars, histVars, cfgVars, fnVars, ebatch, eopt, ech, eerr, mismatch,
                       ecalls, answered, corpusVars>>

\* engine.wait_for_command("uciok")
EWaitUciok ==
    /\ epc = "wait_uciok"
    /\ EWait("uciok", "send_setoption")
    /\ UNCHANGED obsVars

\* One round of "for option in tuning_options: engine.send_command(
\* 'setoption name {} value {}')".
ESendSetoption ==
    /\ epc = "send_setoption"
    /\ eopt <= Len(tuning_options)
    /\ LET option == tuning_options[eopt]
       IN  ESend(<<"setoption", option.name, option.value>>,
                 IF eopt = Len(tuning_options)
                 THEN "send_isready" ELSE "send_setoption")
    /\ eopt' = eopt + 1
    /\ UNCHANGED <<mainVars, passVars, jobVars, histVars, cfgVars, fnVars, ebatch, ech, stdout_eof, stdin_closed,
                   noise, mismatch, ecalls, answered, corpusVars>>
    /\ UNCHANGED obsVars

\* engine.send_command("isready")
ESendIsready ==
    /\ epc = "send_isready"
    /\ ESend(<<"isready">>, "wait_readyok")
    /\ UNCHANGED <<mainVars, passVars, jobVars, histVars, cfgVars, fnVars, ebatch, eopt, ech, stdout_eof,
                   stdin_closed, noise, mismatch, ecalls, answered, corpusVars>>
    /\ UNCHANGED obsVars

\* engine.wait_for_command("readyok")
EWaitReadyok ==
    /\ epc = "wait_readyok"
    /\ EWait("readyok", "send_eval")
    /\ UNCHANGED obsVars

\* engine.send_command("eval " + the fens of the chunk joined by ";")
ESendEval ==
    /\ epc = "send_eval"
    /\ ech <= Len(EChunks)
    /\ ESend(<<"eval", EChunks[ech]>>, "wait_scores")
    /\ UNCHANGED <<mainVars, passVars, jobVars, histVars, cfgVars, fnVars, ebatch, eopt, ech, stdout_eof,
                   stdin_closed, noise, mismatch, ecalls, answered, corpusVars>>
    /\ UNCHANGED obsVars

\* "for i in range(len(scores)): chunk[i].score = scores[i]"
WriteScores(chunk, scores) ==
    /\ score' = [p \in DOMAIN score |->
                    IF \E i \in 1..Len(chunk) : chunk[i] = p
                    THEN scores[CHOOSE i \in 1..Len(chunk) : chunk[i] = p]
                    ELSE score[p]]
    /\ writes' = [p \in DOMAIN writes |->
                    IF \E i \in 1..Len(chunk) : chunk[i] = p
                    THEN writes[p] + 1 ELSE writes[p]]

\* The end of one round of the chunk loop: the next chunk, or "return results".
ENextChunk ==
    /\ ech' = ech + 1
    /\ epc' = IF ech = Len(EChunks) THEN "returned" ELSE "send_eval"

\* result = engine.wait_for_command("scores") and what follows it: the
\* integers are parsed (int() raises ValueError on anything else, and
\* subscripting None, at end of file, raises TypeError), their number is
\* asserted to be that of the chunk, and the scores are stored.
EWaitScores ==
    /\ epc = "wait_scores"
    /\ \E kind \in ELines :
        /\ kind = "other" => noise < MaxNoise
        /\ EStream(kind)
        /\ LET r == wait_for_command(kind)
               chunk == EChunks[ech]
           IN  CASE r = "next" ->
                      /\ noise' = IF kind = "other" THEN noise + 1 ELSE noise
                      /\ UNCHANGED <<epc, ech, eerr, wire, mismatch, answered,
                                     corpusVars>>
                 [] r = "none" ->
                      /\ ECaught("TypeError")
                      /\ UNCHANGED <<ech, wire, noise, mismatch, answered,
                                     corpusVars>>
                 [] OTHER ->
                      /\ wire' = Append(wire, Received("scores"))
                      /\ \/ \* the rest of the line is not a list of integers
                            /\ ECaught("ValueError")
                            /\ UNCHANGED <<ech, mismatch, answered, corpusVars>>
                         \/ \E scores \in ScoreReplies(Len(chunk)) :
                              /\ answered' = Answer(chunk, scores)
                              /\ IF Len(scores) # Len(chunk)
                                 THEN /\ ECaught("AssertionError")
                                      /\ mismatch' = TRUE
                                      /\ UNCHANGED <<ech, corpusVars>>
                                 ELSE /\ WriteScores(chunk, scores)
                                      /\ ENextChunk
                                      /\ UNCHANGED <<eerr, mismatch>>
                      /\ UNCHANGED noise
    /\ UNCHANGED <<mainVars, passVars, jobVars, histVars, cfgVars, fnVars, ebatch, eopt, ecalls>>
    /\ UNCHANGED obsVars

\* run_engine on a batch of 1..MaxBatchE positions, on a fresh session.
InitEngine ==
    /\ concurrent_workers = 1
    /\ \E n \in 1..MaxBatchE : test_positions = [i \in 1..n |-> i]
    /\ tuning_options = InitialOptions
    /\ CorpusFresh
    /\ fpc = "idle"
    /\ batches = <<>>
    /\ chunks = <<>>
    /\ epc = "idle"
    /\ ebatch = test_positions
    /\ eopt = 0
    /\ ech = 0
    /\ eerr = "none"
    /\ stdout_eof = FALSE
    /\ stdin_closed = FALSE
    /\ wire = <<>>
    /\ noise = 0
    /\ mismatch = FALSE
    /\ ecalls = 0
    /\ answered = [p \in 1..Len(test_positions) |-> <<>>]
    /\ MainIdle

NextEngine ==
    \/ CallRunEngine
    \/ ESendUci
    \/ EWaitUciok
    \/ ESendSetoption
    \/ ESendIsready
    \/ EWaitReadyok
    \/ ESendEval
    \/ EWaitScores

SpecEngine == InitEngine /\ [][NextEngine]_vars

IsSend(k, name) == wire[k].ev = "send" /\ wire[k].cmd[1] = name

ReceivedBefore(k, tok) == \E j \in 1..(k - 1) : wire[j] = Received(tok)

\* C9: within one call the session sees uci, (uciok), one setoption per
\* option in list order, isready, (readyok), then the evals one at a time:
\* no setoption or isready is sent before a line with uciok was received, no
\* eval before a line with readyok, and no eval before the scores line of the
\* eval before it, also when the output stream ends without the token.
C9_ProtocolOrder ==
    \A k \in 1..Len(wire) :
        /\ (IsSend(k, "setoption") \/ IsSend(k, "isready")) =>
               ReceivedBefore(k, "uciok")
        /\ IsSend(k, "eval") =>
               /\ ReceivedBefore(k, "readyok")
               /\ \A j \in 1..(k - 1) : IsSend(j, "eval") =>
                      \E i \in (j + 1)..(k - 1) : wire[i] = Received("scores")

\* run_engine gave `results` back to its caller: no exception left it.
ReturnedNormally == epc = "returned"

\* C10: when a scores reply has another number of integers than the chunk
\* has positions, the error is fatal: the job does not end as if it had
\* scored its batch, so that no aggregate error is computed and used.
C10_MismatchIsFatal == mismatch => ~ReturnedNormally

\* ------------------------------------------------------------------------
\* main: the search loop (tune.py 284-371)
\* ------------------------------------------------------------------------

\* "new_err <= best_err": a trial that only ties is taken for an improvement.
ImprovesOrTies(err, best) == err <= best

\* "if new_err < best_err" (lines 312 and 323)
Improves(err, best) == err < best

\* "option.steps >>= 3"
ShrinkBy8(steps) == steps \div 8

\* "option.steps >>= 2"
Shrink(steps) == steps \div 4

\* write_options(options): the values written, in list order (the parts of
\* an array option are regrouped under their name, which is left out).
write_options(options) == [i \in 1..Len(options) |-> options[i].value]

\* An assignment through `option` (config.tuning_options[i]) also changes
\* best_options[i] while both names are bound to the same list (line 297);
\* otherwise best_options becomes `mirrored`, the explicit copies of the code.
Assign(rec, mirrored) ==
    /\ tuning_options' = [tuning_options EXCEPT ![oi] = rec]
    /\ best_options' = IF aliased THEN tuning_options' ELSE mirrored

\* "best_err = run_pass(config, K, engines, test_positions)" is called.
MStart ==
    /\ pc = "start"
    /\ pc' = "init_pass"
    /\ ppc' = "called"
    /\ UNCHANGED <<oi, prev_value, best_err, new_err, best_options, aliased,
                   improved, retry_postponed, result_file, engines, si,
                   status, pret, histVars, cfgVars, fnVars, engVars,
                   corpusVars, jobVars>>
    /\ sent_values' = ValuesOf(tuning_options)
    /\ UNCHANGED <<stops, best_values, before_trial, ntrials, nfails,
                   fail_streak>>

\* Lines 286-294: the first pass has returned.
MInitPass ==
    /\ pc = "init_pass"
    /\ ppc = "returned"
    /\ ppc' = "idle"
    /\ best_err' = pret
    /\ min_err' = pret
    /\ best_options' = tuning_options
    /\ aliased' = FALSE
    /\ retry_postponed' = FALSE
    /\ improved' = TRUE
    /\ pc' = "while"
    /\ UNCHANGED <<oi, prev_value, new_err, result_file, engines, si, status,
                   pret, trial, skips_at_start, last_sweep, decision,
                   cfgVars, fnVars, engVars, corpusVars, jobVars>>
    /\ best_values' = sent_values
    /\ UNCHANGED <<stops, sent_values, before_trial, ntrials, nfails,
                   fail_streak>>

\* Lines 295-298: the test of "while improved" and the head of the sweep.
MWhile ==
    /\ pc = "while"
    /\ IF improved
       THEN /\ improved' = FALSE
            /\ tuning_options' = best_options
            /\ aliased' = TRUE
            /\ result_file' = write_options(best_options)
            /\ oi' = 1
            /\ pc' = "for"
            /\ skips_at_start' =
                   [i \in 1..Len(best_options) |->
                       best_options[i].remaining_skips]
            /\ decision' = IF decision = "none" THEN "none" ELSE "continue"
       ELSE /\ pc' = "final"
            /\ decision' = "halt"
            /\ UNCHANGED <<improved, tuning_options, aliased, result_file,
                           oi, skips_at_start>>
    /\ UNCHANGED <<prev_value, best_err, new_err, best_options,
                   retry_postponed, engines, si, status, passVars, trial,
                   min_err, last_sweep, concurrent_workers, test_positions,
                   fnVars, engVars, corpusVars, jobVars>>
    /\ UNCHANGED obsVars

\* The option is skipped twice over in one turn.
SkippedBy2(option) ==
    [option EXCEPT !.iterations = @ + 1, !.remaining_skips = @ - 2]

\* Lines 301-304 for an option with skips pending: "option.iterations += 1"
\* and "option.remaining_skips -= 1".
Skipped(option) ==
    [option EXCEPT !.iterations = @ + 1, !.remaining_skips = @ - 1]

\* Lines 299-310: the next option of the sweep: skipped, or its first trial
\* (value + steps * direction) started.
MFor ==
    /\ pc = "for"
    /\ IF oi > Len(tuning_options)
       THEN /\ pc' = "sweep_end"
            /\ UNCHANGED <<oi, prev_value, tuning_options, best_options, ppc,
                           trialVars>>
       ELSE LET option == tuning_options[oi]
                it == option.iterations + 1
            IN  IF option.remaining_skips > 0
                THEN LET rec == Skipped(option)
                     IN  /\ Assign(rec,
                              [best_options EXCEPT
                                  ![oi].iterations = it,
                                  ![oi].remaining_skips = rec.remaining_skips])
                         /\ oi' = oi + 1
                         /\ UNCHANGED <<pc, prev_value, ppc, trialVars>>
                ELSE LET rec == [option EXCEPT
                                    !.iterations = it,
                                    !.value = option.value
                                        + option.steps * option.direction]
                     IN  /\ Assign(rec,
                              [best_options EXCEPT ![oi].iterations = it])
                         /\ prev_value' = option.value
                         /\ pc' = "plus"
                         /\ ppc' = "called"
                         /\ sent_values' = ValuesOf(tuning_options')
                         /\ before_trial' =
                                [j \in 1..Len(tuning_options) |->
                                    [value |-> tuning_options[j].value,
                                     direction |-> tuning_options[j].direction]]
                         /\ ntrials' = [ntrials EXCEPT ![oi] = @ + 1]
                         /\ UNCHANGED <<oi, best_values, nfails, fail_streak>>
    /\ UNCHANGED stops
    /\ UNCHANGED <<best_err, new_err, aliased, improved, retry_postponed,
                   result_file, engines, si, status, pret, histVars,
                   concurrent_workers, test_positions, fnVars, engVars,
                   corpusVars, jobVars>>

\* The snapshot is taken of the list as it was before the trial.
CommitStale(rec) ==
    /\ best_err' = pret
    /\ tuning_options' = [tuning_options EXCEPT ![oi] = rec]
    /\ best_options' = [tuning_options' EXCEPT ![oi].value = prev_value]
    /\ aliased' = FALSE
    /\ improved' = TRUE
    /\ oi' = oi + 1
    /\ pc' = "for"
    /\ ppc' = "idle"
    /\ best_values' = sent_values
    /\ fail_streak' = [fail_streak EXCEPT ![oi] = 0]
    /\ UNCHANGED <<sent_values, nfails>>

\* The commit leaves skip_count as it was.
CommitKeepStreak(rec) ==
    /\ best_err' = pret
    /\ tuning_options' =
           [tuning_options EXCEPT
               ![oi] = [rec EXCEPT !.skip_count = tuning_options[oi].skip_count]]
    /\ best_options' = tuning_options'
    /\ aliased' = FALSE
    /\ improved' = TRUE
    /\ oi' = oi + 1
    /\ pc' = "for"
    /\ ppc' = "idle"
    /\ best_values' = sent_values
    /\ fail_streak' = [fail_streak EXCEPT ![oi] = 0]
    /\ UNCHANGED <<sent_values, nfails>>

\* Lines 313-318 and 324-330: the trial is committed; `rec` is the option
\* after the assignments to it.
Commit(rec) ==
    /\ best_err' = pret
    /\ tuning_options' = [tuning_options EXCEPT ![oi] = rec]
    /\ best_options' = tuning_options'
    /\ aliased' = FALSE
    /\ improved' = TRUE
    /\ oi' = oi + 1
    /\ pc' = "for"
    /\ ppc' = "idle"
    /\ best_values' = sent_values
    /\ fail_streak' = [fail_streak EXCEPT ![oi] = 0]
    /\ UNCHANGED <<sent_values, nfails>>

\* The opposite step is taken from the value of the first trial.
OppositeFromCurrent(option, prev) ==
    option.value + option.steps * (-option.direction)

\* Line 320: "prev_value + option.steps * -option.direction".
OppositeValue(option, prev) == prev + option.steps * (-option.direction)

\* Lines 310-320: the pass of the first trial has returned.
MPlus ==
    /\ pc = "plus"
    /\ ppc = "returned"
    /\ new_err' = pret
    /\ min_err' = Min(min_err, pret)
    /\ LET option == tuning_options[oi]
       IN  IF Improves(pret, best_err)
           THEN /\ Commit([option EXCEPT !.improvements = @ + 1,
                                         !.skip_count = 0])
                /\ trial' = [option |-> oi, err |-> pret, best |-> best_err,
                             committed |-> TRUE]
           ELSE /\ Assign([option EXCEPT
                              !.value = OppositeValue(option, prev_value)],
                          best_options)
                /\ trial' = [option |-> oi, err |-> pret, best |-> best_err,
                             committed |-> FALSE]
                /\ pc' = "minus"
                /\ ppc' = "called"
                /\ sent_values' = ValuesOf(tuning_options')
                /\ UNCHANGED <<best_err, aliased, improved, oi, best_values,
                               nfails, fail_streak>>
    /\ UNCHANGED <<stops, before_trial, ntrials>>
    /\ UNCHANGED <<prev_value, retry_postponed, result_file, engines, si,
                   status, pret, skips_at_start, last_sweep, decision,
                   concurrent_workers, test_positions, fnVars, engVars,
                   corpusVars, jobVars>>

\* The value of the opposite trial is left in place.
NotReverted(option, prev) == option

\* Line 332: "option.value = prev_value".
Reverted(option, prev) == [option EXCEPT !.value = prev]

\* The back-off does not grow with the streak.
BackOffFlat(skip_count) == SkipFactor

\* Line 345: the skips added, "8 * option.skip_count".
BackOff(skip_count) == SkipFactor * skip_count

\* The step is halved and never forced to 1.
NewStepsHalved(option) == Max(1, option.steps \div 2)

\* The step drops to 1 at the first failure.
NewStepsToOne(option) == 1

\* Lines 333-340: the new step after a trial failed in both directions.
NewSteps(option) ==
    IF option.iterations > 1 /\ option.improvements = 0
    THEN 1
    ELSE Shrink(option.steps)

\* Lines 321-347: the pass of the opposite trial has returned.
MMinus ==
    /\ pc = "minus"
    /\ ppc = "returned"
    /\ new_err' = pret
    /\ min_err' = Min(min_err, pret)
    /\ LET option == tuning_options[oi]
       IN  IF Improves(pret, best_err)
           THEN /\ Commit([option EXCEPT !.direction = -@,
                                         !.improvements = @ + 1,
                                         !.skip_count = 0])
                /\ trial' = [option |-> oi, err |-> pret, best |-> best_err,
                             committed |-> TRUE]
           ELSE /\ IF option.steps > 1
                   THEN LET st == NewSteps(option)
                        IN  Assign([Reverted(option, prev_value)
                                       EXCEPT !.steps = st],
                                   [best_options EXCEPT ![oi].steps = st])
                   ELSE LET sc == option.skip_count + 1
                            rs == option.remaining_skips + BackOff(sc)
                        IN  Assign([Reverted(option, prev_value)
                                       EXCEPT !.skip_count = sc,
                                              !.remaining_skips = rs],
                                   [best_options EXCEPT
                                       ![oi].remaining_skips = rs,
                                       ![oi].skip_count = sc])
                /\ trial' = [option |-> oi, err |-> pret, best |-> best_err,
                             committed |-> FALSE]
                /\ oi' = oi + 1
                /\ pc' = "for"
                /\ ppc' = "idle"
                /\ nfails' = [nfails EXCEPT ![oi] = @ + 1]
                /\ fail_streak' =
                       [fail_streak EXCEPT
                           ![oi] = IF option.steps > 1 THEN @ ELSE @ + 1]
                /\ UNCHANGED <<best_err, aliased, improved, sent_values,
                               best_values>>
    /\ UNCHANGED <<stops, before_trial, ntrials>>
    /\ UNCHANGED <<prev_value, retry_postponed, result_file, engines, si,
                   status, pret, skips_at_start, last_sweep, decision,
                   concurrent_workers, test_positions, fnVars, engVars,
                   corpusVars, jobVars>>

\* The reset without "option.remaining_skips = 0".
ResetStepsOnly(options) ==
    [i \in 1..Len(options) |-> [options[i] EXCEPT !.steps = 1]]

\* The reset without "option.steps = 1".
ResetSkipsOnly(options) ==
    [i \in 1..Len(options) |->
        [options[i] EXCEPT !.remaining_skips = IF @ > 0 THEN 0 ELSE @]]

\* "any_postponed" is never set.
AnyPostponedNever(options) == FALSE

\* Lines 353-357: "option.steps = 1" and the pending skips cleared.
ResetPostponed(options) ==
    [i \in 1..Len(options) |->
        [options[i] EXCEPT !.steps = 1,
                           !.remaining_skips = IF @ > 0 THEN 0 ELSE @]]

\* Line 355: some option of the list has skips pending.
AnyPostponed(options) ==
    \E i \in 1..Len(options) : options[i].remaining_skips > 0

\* Lines 349-361: the end of a sweep.
MSweepEnd ==
    /\ pc = "sweep_end"
    /\ last_sweep' = [improved |-> improved, retry |-> retry_postponed,
                      skips |-> [i \in 1..Len(best_options) |->
                                    best_options[i].remaining_skips],
                      steps |-> [i \in 1..Len(best_options) |->
                                    best_options[i].steps]]
    /\ decision' = "pending"
    /\ IF ~improved /\ ~retry_postponed
       THEN /\ retry_postponed' = TRUE
            /\ best_options' = ResetPostponed(best_options)
            /\ tuning_options' =
                   IF aliased THEN best_options' ELSE tuning_options
            /\ improved' = AnyPostponed(best_options)
       ELSE /\ retry_postponed' = FALSE
            /\ UNCHANGED <<best_options, tuning_options, improved>>
    /\ pc' = "while"
    /\ UNCHANGED <<oi, prev_value, best_err, new_err, aliased, result_file,
                   engines, si, status, passVars, trial, min_err,
                   skips_at_start, concurrent_workers, test_positions,
                   fnVars, engVars, corpusVars, jobVars>>
    /\ UNCHANGED obsVars

\* Lines 363-367: the loop has ended; the result is written once more.
MFinal ==
    /\ pc = "final"
    /\ result_file' = write_options(best_options)
    /\ status' = "ok"
    /\ si' = 1
    /\ pc' = "finally"
    /\ UNCHANGED <<oi, prev_value, best_err, new_err, best_options, aliased,
                   improved, retry_postponed, engines, passVars, histVars,
                   cfgVars, fnVars, engVars, corpusVars, jobVars>>
    /\ UNCHANGED obsVars

\* Lines 369-371 with Engine.stop (81-86): one round of "for engine in
\* engines: engine.stop()". communicate("quit\n", timeout=2) returns when
\* the process exits in time, and kill() and communicate() follow; otherwise
\* it raises TimeoutExpired, which leaves stop, the loop and main.
MStopEngine ==
    /\ pc = "finally"
    /\ IF si > Len(engines)
       THEN /\ pc' = "exit"
            /\ UNCHANGED <<engines, si, status, stops>>
       ELSE /\ stops' = [stops EXCEPT ![si] = @ + 1]
            /\ \E exits_in_time \in BOOLEAN :
                IF exits_in_time
                THEN /\ engines' = [engines EXCEPT ![si] = "stopped"]
                     /\ si' = si + 1
                     /\ UNCHANGED <<pc, status>>
                ELSE /\ status' = "TimeoutExpired"
                     /\ pc' = "exit"
                     /\ UNCHANGED <<engines, si>>
    /\ UNCHANGED trialVars
    /\ UNCHANGED <<oi, prev_value, best_err, new_err, best_options, aliased,
                   improved, retry_postponed, result_file, passVars,
                   histVars, cfgVars, fnVars, engVars, corpusVars, jobVars>>

\* ------------------------------------------------------------------------
\* SpecSearch: main with run_pass returning any error of 0..MaxErr.
\* ------------------------------------------------------------------------

\* Lines 278-282: "for i in range(config.concurrent_workers + 1)".
SpawnedEngines == [k \in 1..(concurrent_workers + 1) |-> "up"]

\* main before its first pass; run_engine is not called directly.
MainStarted ==
    /\ pc = "start"
    /\ oi = 0
    /\ prev_value = 0
    /\ best_err = 0
    /\ new_err = 0
    /\ best_options = <<>>
    /\ aliased = FALSE
    /\ improved = FALSE
    /\ retry_postponed = FALSE
    /\ result_file = <<>>
    /\ engines = SpawnedEngines
    /\ si = 0
    /\ status = "running"
    /\ ppc = "idle"
    /\ pret = 0
    /\ worker_id = 0
    /\ futures = <<>>
    /\ yielded = {}
    /\ pass_no = 0
    /\ trial = <<>>
    /\ min_err = 0
    /\ skips_at_start = <<>>
    /\ last_sweep = <<>>
    /\ decision = "none"
    /\ stops = [k \in 1..(concurrent_workers + 1) |-> 0]
    /\ NoTrials

\* run_pass as the search sees it: a call that returns an aggregate error.
OraclePass ==
    /\ ppc = "called"
    /\ ppc' = "returned"
    /\ pret' \in 0..MaxErr
    /\ UNCHANGED <<mainVars, jobVars, histVars, cfgVars, fnVars, engVars,
                   corpusVars, jobVars>>
    /\ UNCHANGED obsVars

InitSearch ==
    /\ concurrent_workers = 1
    /\ test_positions = <<1>>
    /\ tuning_options = InitialOptions
    /\ CorpusFresh
    /\ fpc = "idle"
    /\ batches = <<>>
    /\ chunks = <<>>
    /\ EngineIdle
    /\ MainStarted

NextSearch ==
    \/ MStart
    \/ MInitPass
    \/ MWhile
    \/ MFor
    \/ MPlus
    \/ MMinus
    \/ MSweepEnd
    \/ MFinal
    \/ MStopEngine
    \/ OraclePass

SpecSearch == InitSearch /\ [][NextSearch]_vars

\* main is one sequential thread that runs on while it has a next statement,
\* every call of run_pass returns, and Engine.stop returns or raises within
\* its timeout of 2 seconds: the next step of the search is always taken.
SpecSearchFair == SpecSearch /\ WF_vars(NextSearch)

\* C3: a trial is committed exactly when its pass error is strictly less
\* than best_err at that moment; best_err never increases, strictly
\* decreases at every commit, and always equals the minimum of the error of
\* the first pass and of all trial errors seen so far.
C3_CommitIffBetter ==
    /\ trial # <<>> =>
        /\ trial.committed <=> trial.err < trial.best
        /\ best_err = IF trial.committed THEN trial.err ELSE trial.best
        /\ best_err <= trial.best
        /\ trial.committed => best_err < trial.best
    /\ pc \notin {"start", "init_pass"} => best_err = min_err

\* Reached: an option commits its second improvement.
C3_Witness ==
    /\ trial # <<>>
    /\ trial.committed
    /\ tuning_options[trial.option].improvements >= 2

StepValues == {16, 4, 1}

\* C4: every option's step is 16, 4 or 1 in every state of the search; it
\* starts at 16, only ever changes to a smaller value, never below 1.
C4_Steps ==
    /\ [](/\ \A i \in 1..Len(tuning_options) :
                 tuning_options[i].steps \in StepValues
          /\ \A i \in 1..Len(best_options) :
                 best_options[i].steps \in StepValues
          /\ pc = "start" =>
                 \A i \in 1..Len(tuning_options) :
                     tuning_options[i].steps = 16)
    /\ [][\A i \in 1..Len(tuning_options) :
              /\ tuning_options'[i].steps <= tuning_options[i].steps
              /\ tuning_options'[i].steps >= 1]_vars

\* Reached: an option has come down from 16 over 4 to 1 by failed trials
\* alone: it has an improvement, so it was not forced to 1, and another
\* option is still at 16, so no reset has run.
C4_Witness ==
    \E i, k \in 1..Len(tuning_options) :
        /\ tuning_options[i].steps = 1
        /\ tuning_options[i].improvements > 0
        /\ tuning_options[k].steps = 16
        /\ tuning_options[k].iterations >= 3

\* A sweep has run to its end and the loop is back at "while improved".
SweepEnded == pc = "while" /\ last_sweep # <<>>

\* remaining_skips only grows in the step that ends a trial of that option
\* which failed in both directions at step 1.
SkipsGrowOnlyAtStepOne ==
    [][\A i \in 1..Len(tuning_options) :
          tuning_options'[i].remaining_skips
              > tuning_options[i].remaining_skips
          => /\ pc = "minus"
             /\ oi = i
             /\ tuning_options[i].steps = 1
             /\ ~(trial.err < trial.best)
             /\ ~(pret < best_err)]_vars

\* C5, as claimed: remaining_skips is never negative; when it is positive at
\* the start of a sweep it is exactly 1 smaller at the end of that sweep;
\* and it only grows when the option fails in both directions at step 1.
C5_DropsByOnePerSweep ==
    /\ [](/\ \A i \in 1..Len(tuning_options) :
                 tuning_options[i].remaining_skips >= 0
          /\ SweepEnded =>
                 \A i \in 1..Len(best_options) :
                     skips_at_start[i] > 0 =>
                         best_options[i].remaining_skips
                             = skips_at_start[i] - 1)
    /\ SkipsGrowOnlyAtStepOne

\* C5, amended: remaining_skips is never negative; when it is positive at
\* the start of a sweep it is exactly 1 smaller once the loop over the
\* options has finished, and the reset that follows a sweep without
\* improvement that was not a retry then sets it to 0; it only grows when
\* the option fails in both directions at step 1.
C5_DropsByOneOrReset ==
    /\ [](/\ \A i \in 1..Len(tuning_options) :
                 tuning_options[i].remaining_skips >= 0
          /\ \A i \in 1..Len(best_options) :
                 best_options[i].remaining_skips >= 0
          /\ pc = "sweep_end" =>
                 \A i \in 1..Len(tuning_options) :
                     skips_at_start[i] > 0 =>
                         /\ tuning_options[i].remaining_skips
                                = skips_at_start[i] - 1
                         /\ best_options[i].remaining_skips
                                = skips_at_start[i] - 1
          /\ SweepEnded =>
                 \A i \in 1..Len(best_options) :
                     skips_at_start[i] > 0 =>
                         best_options[i].remaining_skips
                             = IF ~last_sweep.improved /\ ~last_sweep.retry
                               THEN 0
                               ELSE skips_at_start[i] - 1)
    /\ SkipsGrowOnlyAtStepOne

\* Reached: a reset has cleared skips that were pending after the sweep.
C5_Witness ==
    /\ SweepEnded
    /\ ~last_sweep.improved
    /\ ~last_sweep.retry
    /\ \E i \in 1..Len(best_options) :
           /\ skips_at_start[i] > 1
           /\ last_sweep.skips[i] = skips_at_start[i] - 1
           /\ best_options[i].remaining_skips = 0

\* The sweep that just ended calls for a halt: it improved nothing, and it
\* was the retry sweep or left no option with skips pending.
HaltDue ==
    /\ ~last_sweep.improved
    /\ \/ last_sweep.retry
       \/ \A i \in 1..Len(last_sweep.skips) : last_sweep.skips[i] = 0

\* C6: the loop halts exactly when a sweep improved nothing and either was
\* the retry sweep or the reset found no skips pending; it never halts right
\* after a sweep with a commit, and no second retry follows a retry sweep
\* without improvement.
C6_HaltExactly ==
    /\ decision = "halt" => HaltDue
    /\ decision = "continue" => ~HaltDue
    /\ (decision = "continue" /\ ~last_sweep.improved) =>
           /\ ~last_sweep.retry
           /\ retry_postponed

\* Reached: the loop halted after a retry sweep that improved nothing.
C6_Witness ==
    /\ decision = "halt"
    /\ last_sweep.retry
    /\ ~last_sweep.improved

\* The step of main that ends a trial of option i without a commit.
TrialFails(i) ==
    /\ pc = "minus"
    /\ oi = i
    /\ pc' = "for"
    /\ ~trial'.committed

\* The step of main that commits a trial of option i.
TrialCommits(i) ==
    /\ pc \in {"plus", "minus"}
    /\ oi = i
    /\ pc' = "for"
    /\ trial'.committed

\* C14: the step that starts a sweep and the step that follows the loop
\* write the result file; what they write is the values of best_options,
\* and these are the values the pass that gave best_err was called with
\* (the values of the configuration while nothing is committed). The file
\* is written by no other step, and outside a trial the values of
\* best_options are those values.
C14_SnapshotIsBest ==
    /\ [][((pc = "while" /\ pc' = "for") \/ (pc = "final" /\ pc' = "finally"))
              => /\ result_file' = ValuesOf(best_options')
                 /\ result_file' = best_values']_vars
    /\ [][result_file' # result_file =>
              (pc = "while" /\ pc' = "for") \/ pc = "final"]_vars
    /\ [](pc \in {"while", "for", "sweep_end", "final", "finally", "exit"}
              => ValuesOf(best_options) = best_values)
    /\ []((pc = "exit" /\ status = "ok") => result_file = best_values)

\* Reached: a sweep starts with a file that holds a committed value, after
\* a trial of another option failed and was taken back.
C14_Witness ==
    /\ pc = "for"
    /\ oi = 1
    /\ result_file = best_values
    /\ result_file # ValuesOf(InitialOptions)
    /\ \E i \in 1..NumOptions : nfails[i] > 0 /\ result_file[i] = InitValue

\* C15: a trial that fails in both directions at step 1 increments
\* skip_count and adds 8 * skip_count to remaining_skips, in the working
\* list and in best_options; skip_count is the number of such failures
\* since the option's last commit, so the k-th of them adds 8k.
C15_BackOffGrows ==
    /\ [](\A i \in 1..Len(tuning_options) :
              tuning_options[i].skip_count = fail_streak[i])
    /\ [][\A i \in 1..Len(tuning_options) :
              (TrialFails(i) /\ tuning_options[i].steps = 1) =>
                  /\ fail_streak'[i] = fail_streak[i] + 1
                  /\ tuning_options'[i].skip_count = fail_streak'[i]
                  /\ tuning_options'[i].remaining_skips =
                         tuning_options[i].remaining_skips
                             + 8 * fail_streak'[i]
                  /\ best_options'[i].skip_count = fail_streak'[i]
                  /\ best_options'[i].remaining_skips =
                         tuning_options'[i].remaining_skips]_vars

\* Reached: the second failure in a row at step 1 has added 16 skips.
C15_Witness ==
    \E i \in 1..Len(tuning_options) :
        /\ fail_streak[i] = 2
        /\ tuning_options[i].remaining_skips = 16

\* C16: the step that commits a trial leaves that option with
\* remaining_skips = 0 and skip_count = 0, in the working list and in the
\* new best_options.
C16_CommitClearsBackOff ==
    [][\A i \in 1..Len(tuning_options) :
          TrialCommits(i) =>
              /\ tuning_options'[i].remaining_skips = 0
              /\ tuning_options'[i].skip_count = 0
              /\ best_options'[i].remaining_skips = 0
              /\ best_options'[i].skip_count = 0]_vars

\* Reached: an option has just committed its first improvement after three
\* failed trials, the third of which, at step 1, had backed it off.
C16_Witness ==
    /\ pc = "for"
    /\ trial # <<>>
    /\ trial.committed
    /\ oi = trial.option + 1
    /\ nfails[trial.option] = 3
    /\ tuning_options[trial.option].improvements = 1
    /\ tuning_options[trial.option].skip_count = 0

\* C17: an option that starts at value InitValue (10), step 16, direction 1
\* and whose first three trials all failed in both directions has its
\* starting value, step 1, skip_count 1 and direction 1 from the end of the
\* third trial until its next trial.
C17_ThreeFailures ==
    \A i \in 1..Len(tuning_options) :
        (ntrials[i] = 3 /\ nfails[i] = 3) =>
            /\ tuning_options[i].value = InitValue
            /\ tuning_options[i].steps = 1
            /\ tuning_options[i].skip_count = 1
            /\ tuning_options[i].direction = 1

\* Reached: the third failure of an option, with commits of another option
\* in between.
C17_Witness ==
    \E i, k \in 1..Len(tuning_options) :
        /\ ntrials[i] = 3
        /\ nfails[i] = 3
        /\ tuning_options[k].improvements >= 2

\* C18: the step that ends a trial without a commit leaves every option,
\* the one under trial included, with the value and direction it had when
\* the trial began; a direction changes only in the step that commits the
\* opposite trial of that option, and then to its negative.
C18_FailedTrialRestores ==
    /\ [][\A i \in 1..Len(tuning_options) :
              TrialFails(i) =>
                  \A j \in 1..Len(tuning_options) :
                      /\ tuning_options'[j].value = before_trial[j].value
                      /\ tuning_options'[j].direction
                             = before_trial[j].direction
                      /\ best_options'[j].value = before_trial[j].value
                      /\ best_options'[j].direction
                             = before_trial[j].direction]_vars
    /\ [][\A j \in 1..Len(tuning_options) :
              tuning_options'[j].direction # tuning_options[j].direction =>
                  /\ pc = "minus"
                  /\ TrialCommits(j)
                  /\ tuning_options'[j].direction
                         = -tuning_options[j].direction]_vars

\* Reached: a trial has failed while another option has a flipped direction
\* and a committed value.
C18_Witness ==
    /\ pc = "for"
    /\ trial # <<>>
    /\ ~trial.committed
    /\ oi = trial.option + 1
    /\ \E j \in 1..Len(tuning_options) :
           /\ j # trial.option
           /\ tuning_options[j].direction = -1
           /\ tuning_options[j].value # InitValue

\* C19: the turn of an option with skips pending calls no pass, takes 1 off
\* remaining_skips and leaves value, steps, direction, improvements and
\* skip_count as they are.
C19_SkipTurn ==
    [][(/\ pc = "for"
        /\ oi <= Len(tuning_options)
        /\ tuning_options[oi].remaining_skips > 0) =>
           LET before == tuning_options[oi]
               after == tuning_options'[oi]
           IN  /\ ppc' = "idle"
               /\ pc' = "for"
               /\ oi' = oi + 1
               /\ ntrials' = ntrials
               /\ sent_values' = sent_values
               /\ after.remaining_skips = before.remaining_skips - 1
               /\ best_options'[oi].remaining_skips
                      = before.remaining_skips - 1
               /\ after.value = before.value
               /\ after.steps = before.steps
               /\ after.direction = before.direction
               /\ after.improvements = before.improvements
               /\ after.skip_count = before.skip_count]_vars

\* Reached: an option with 8 skips pending has just been skipped.
C19_Witness ==
    /\ pc = "for"
    /\ oi > 1
    /\ tuning_options[oi - 1].remaining_skips = 7
    /\ tuning_options[oi - 1].iterations = ntrials[oi - 1] + 1

\* C20: iterations of an option is the number of sweeps in which a trial of
\* it was run.
C20_IterationsCountTrials ==
    \A i \in 1..Len(tuning_options) :
        tuning_options[i].iterations = ntrials[i]

\* Option i is under trial and has never improved: all its trials before
\* this one failed in both directions.
NeverImproved(i) ==
    /\ pc \in {"plus", "minus"}
    /\ oi = i
    /\ tuning_options[i].improvements = 0
    /\ nfails[i] = ntrials[i] - 1

\* C21: the step that ends a failed trial at step > 1 sets the step to
\* 1 when the option has at least 2 iterations and no improvement, and to
\* step / 4 otherwise (16 -> 4, 4 -> 1), in both lists, and adds no skips;
\* an option that never improves has its first trial at step 16, its second
\* at 4 and its third at 1, with no back-off before the third.
C21_StepSchedule ==
    /\ [][\A i \in 1..Len(tuning_options) :
              (TrialFails(i) /\ tuning_options[i].steps > 1) =>
                  /\ tuning_options'[i].steps =
                         IF /\ tuning_options[i].iterations >= 2
                            /\ tuning_options[i].improvements = 0
                         THEN 1
                         ELSE tuning_options[i].steps \div 4
                  /\ tuning_options'[i].steps \in {4, 1}
                  /\ best_options'[i].steps = tuning_options'[i].steps
                  /\ tuning_options'[i].remaining_skips = 0
                  /\ fail_streak'[i] = fail_streak[i]]_vars
    /\ [](\A i \in 1..Len(tuning_options) :
              NeverImproved(i) =>
                  /\ ntrials[i] = 1 => tuning_options[i].steps = 16
                  /\ ntrials[i] = 2 => tuning_options[i].steps = 4
                  /\ ntrials[i] = 3 => /\ tuning_options[i].steps = 1
                                       /\ fail_streak[i] = 0)

\* Reached: the third trial of an option that never improved, at step 1.
C21_Witness ==
    /\ pc = "minus"
    /\ NeverImproved(oi)
    /\ ntrials[oi] = 3
    /\ tuning_options[oi].steps = 1

\* The step of main that ends a sweep which improved nothing and was not a
\* retry sweep.
SweepEndsWithReset ==
    /\ pc = "sweep_end"
    /\ ~improved
    /\ ~retry_postponed

\* C22: the step that ends a sweep without improvement which was not a
\* retry sweep leaves every option, in best_options and in the working list,
\* with steps = 1 and remaining_skips = 0 and with its other fields as they
\* were; it sets the retry flag, and the loop runs one more sweep exactly
\* when some option had remaining_skips > 0 before the reset. A sweep runs
\* under the retry flag only after such a reset.
C22_PostponedReset ==
    /\ [][SweepEndsWithReset =>
              /\ \A i \in 1..Len(best_options) :
                     /\ best_options'[i] =
                            [best_options[i] EXCEPT !.steps = 1,
                                                    !.remaining_skips = 0]
                     /\ tuning_options'[i] = best_options'[i]
              /\ retry_postponed'
              /\ improved' <=> \E i \in 1..Len(best_options) :
                                   best_options[i].remaining_skips > 0
              /\ pc' = "while"]_vars
    /\ []((pc \in {"for", "plus", "minus", "sweep_end"} /\ retry_postponed)
              => /\ last_sweep # <<>>
                 /\ ~last_sweep.improved
                 /\ ~last_sweep.retry
                 /\ \E i \in 1..Len(last_sweep.skips) :
                        last_sweep.skips[i] > 0
                 /\ \A i \in 1..Len(tuning_options) :
                        tuning_options[i].steps = 1)
    /\ []((decision = "halt" /\ ~last_sweep.retry) =>
              \A i \in 1..Len(last_sweep.skips) : last_sweep.skips[i] = 0)

\* Reached: a reset has brought an option down from a step above 1, cleared
\* the pending skips of another, and the retry sweep has begun.
C22_Witness ==
    /\ pc = "for"
    /\ retry_postponed
    /\ \E i, j \in 1..Len(tuning_options) :
           /\ last_sweep.steps[i] > 1
           /\ tuning_options[i].steps = 1
           /\ last_sweep.skips[j] > 0
           /\ tuning_options[j].remaining_skips = 0

\* ------------------------------------------------------------------------
\* run_pass and the jobs of its thread pool (tune.py 214-244)
\* ------------------------------------------------------------------------

\* The label of position p (TestPosition.result), doubled: 2 for "1-0", 0 for
\* "0-1", 1 for a draw. The corpus of the model cycles through the three.
ResultTimes2(p) == (p + 1) % 3

\* 1000 / (1 + 10 ** (-score * K / 400)) with K = 1.342224, rounded, for the
\* scores of the model.
WinProbability(s) ==
    CASE s = 0 -> 500
      [] s = 300 -> 910
      [] s = -300 -> 90

RECURSIVE SumErrors(_, _)
SumErrors(positions, sc) ==
    IF positions = <<>>
    THEN 0
    ELSE LET pos == Head(positions)
             error == ResultTimes2(pos) * 500 - WinProbability(sc[pos])
         IN  error * error + SumErrors(Tail(positions), sc)

\* calc_avg_error(k, positions) in units of 10 ** -6.
calc_avg_error(positions, sc) == SumErrors(positions, sc) \div Len(positions)

\* The positional arguments "executor.submit(run_engine, engine, worker_id,
\* config.tuning_options, batch)" hands to run_engine (line 223).
SubmitArgs == <<"engine", "worker_id", "config.tuning_options", "batch">>

\* The parameters of "def run_engine(engine, tuning_options, test_positions)"
\* (line 100).
RunEngineParams == <<"engine", "tuning_options", "test_positions">>

\* Python's call fn(*args): the arguments are bound to the parameters, or
\* TypeError is raised before the body runs.
BindArguments(args, params) ==
    IF Len(args) = Len(params) THEN "bound" ELSE "TypeError"

\* A job that has started counts as done.
FutureStarted(f) == f.state # "pending"

\* Future.done(): the job has returned or raised.
FutureDone(f) == f.state = "finished"

Running == {j \in 1..Len(futures) : futures[j].state = "running"}

\* run_pass is entered: the executor is created (line 219) and the generator
\* of the batches is made (line 221).
PStart ==
    /\ ppc = "called"
    /\ ppc' = "submit"
    /\ batches' = make_batches(test_positions, concurrent_workers)
    /\ worker_id' = 1
    /\ futures' = <<>>
    /\ yielded' = {}
    /\ pass_no' = pass_no + 1
    /\ writes' = [p \in DOMAIN writes |-> 0]
    /\ answered' = [p \in DOMAIN answered |-> <<>>]
    /\ UNCHANGED <<mainVars, pret, histVars, cfgVars, fpc, chunks, score,
                   epc, ebatch, eopt, ech, eerr, stdout_eof, stdin_closed,
                   wire, noise, mismatch, ecalls>>
    /\ UNCHANGED obsVars

\* Lines 221-224: one round of the loop over the batches. engines[worker_id
\* - 1] raises IndexError past the end of the list, which leaves the with
\* block.
PSubmit ==
    /\ ppc = "submit"
    /\ IF worker_id > Len(batches)
       THEN /\ ppc' = "as_completed"
            /\ UNCHANGED <<worker_id, futures>>
       ELSE IF worker_id - 1 >= Len(engines)
            THEN /\ ppc' = "unwind"
                 /\ UNCHANGED <<worker_id, futures>>
            ELSE /\ futures' = Append(futures,
                        [state |-> "pending", exception |-> "none",
                         engine |-> worker_id, batch |-> worker_id,
                         pass |-> pass_no])
                 /\ worker_id' = worker_id + 1
                 /\ UNCHANGED ppc
    /\ UNCHANGED <<mainVars, pret, yielded, pass_no, histVars, cfgVars,
                   fnVars, engVars, corpusVars>>
    /\ UNCHANGED obsVars

\* A thread of the pool (at most max_workers = concurrent_workers of them)
\* takes the oldest queued job.
JobStart(j) ==
    /\ futures[j].state = "pending"
    /\ \A i \in 1..(j - 1) : futures[i].state # "pending"
    /\ Cardinality(Running) < concurrent_workers
    /\ futures' = [futures EXCEPT ![j].state = "running"]
    /\ UNCHANGED <<mainVars, passVars, worker_id, yielded, pass_no, histVars,
                   cfgVars, fnVars, engVars, corpusVars>>
    /\ UNCHANGED obsVars

\* The thread calls run_engine(engine, worker_id, config.tuning_options,
\* batch). The exception of a call that raises is stored in the future.
JobRun(j) ==
    /\ futures[j].state = "running"
    /\ LET bound == BindArguments(SubmitArgs, RunEngineParams)
       IN  futures' = [futures EXCEPT
               ![j].state = IF bound = "bound" THEN "in_run_engine"
                            ELSE "finished",
               ![j].exception = IF bound = "bound" THEN "none" ELSE bound]
    /\ UNCHANGED <<mainVars, passVars, worker_id, yielded, pass_no, histVars,
                   cfgVars, fnVars, engVars, corpusVars>>
    /\ UNCHANGED obsVars

JobStartAny == \E j \in 1..Len(futures) : JobStart(j)

JobRunAny == \E j \in 1..Len(futures) : JobRun(j)

\* The loop asks every future for its result, which raises its exception.
ResultRaisesStored(f) == f.exception # "none"

\* Lines 226-228: the body of the loop over as_completed only asks
\* future.cancelled(); future.result() and future.exception() are never
\* called, so the exception a job ended with is not raised in run_pass.
ResultRaises(f) == FALSE

\* Lines 226-228: as_completed hands out a future that is done; no future
\* is ever cancelled, so that sys.exit is not reached.
PYield(j) ==
    /\ ppc = "as_completed"
    /\ j \notin yielded
    /\ FutureDone(futures[j])
    /\ IF ResultRaises(futures[j])
       THEN /\ ppc' = "unwind"
            /\ UNCHANGED yielded
       ELSE /\ yielded' = yielded \cup {j}
            /\ UNCHANGED ppc
    /\ UNCHANGED <<mainVars, pret, worker_id, futures, pass_no, histVars,
                   cfgVars, fnVars, engVars, corpusVars>>
    /\ UNCHANGED obsVars

PYieldAny == \E j \in 1..Len(futures) : PYield(j)

\* as_completed has handed out every future: the loop ends.
PLoopEnd ==
    /\ ppc = "as_completed"
    /\ yielded = 1..Len(futures)
    /\ ppc' = "shutdown"
    /\ UNCHANGED <<mainVars, pret, jobVars, histVars, cfgVars, fnVars,
                   engVars, corpusVars>>
    /\ UNCHANGED obsVars

\* The with block is left: executor.shutdown(wait=True) returns when every
\* submitted job is done; an exception then goes on to the caller.
PShutdown ==
    /\ ppc \in {"shutdown", "unwind"}
    /\ \A j \in 1..Len(futures) : FutureDone(futures[j])
    /\ ppc' = IF ppc = "shutdown" THEN "calc" ELSE "raised"
    /\ UNCHANGED <<mainVars, pret, jobVars, histVars, cfgVars, fnVars,
                   engVars, corpusVars>>
    /\ UNCHANGED obsVars

\* Lines 232-234: "e = calc_avg_error(k, test_positions); return e".
PCalc ==
    /\ ppc = "calc"
    /\ pret' = calc_avg_error(test_positions, score)
    /\ ppc' = "returned"
    /\ UNCHANGED <<mainVars, jobVars, histVars, cfgVars, fnVars, engVars,
                   corpusVars>>
    /\ UNCHANGED obsVars

\* run_pass raised: main goes to its finally block (line 369).
MRaised ==
    /\ pc \in {"init_pass", "plus", "minus"}
    /\ ppc = "raised"
    /\ ppc' = "idle"
    /\ status' = "IndexError"
    /\ si' = 1
    /\ pc' = "finally"
    /\ UNCHANGED <<oi, prev_value, best_err, new_err, best_options, aliased,
                   improved, retry_postponed, result_file, engines, pret,
                   jobVars, histVars, cfgVars, fnVars, engVars, corpusVars>>
    /\ UNCHANGED obsVars

\* ------------------------------------------------------------------------
\* Spec: the program as written, for every corpus of 1..MaxCorpus positions
\* and 1..MaxWorkers workers.
\* ------------------------------------------------------------------------

Init ==
    /\ concurrent_workers \in 1..MaxWorkers
    /\ \E n \in 1..MaxCorpus : test_positions = [i \in 1..n |-> i]
    /\ tuning_options = InitialOptions
    /\ CorpusFresh
    /\ fpc = "idle"
    /\ batches = <<>>
    /\ chunks = <<>>
    /\ EngineIdle
    /\ MainStarted

Next ==
    \/ MStart
    \/ MInitPass
    \/ MWhile
    \/ MFor
    \/ MPlus
    \/ MMinus
    \/ MSweepEnd
    \/ MFinal
    \/ MStopEngine
    \/ MRaised
    \/ PStart
    \/ PSubmit
    \/ JobStartAny
    \/ JobRunAny
    \/ PYieldAny
    \/ PLoopEnd
    \/ PShutdown
    \/ PCalc

Spec == Init /\ [][Next]_vars

InPass == {"submit", "as_completed", "shutdown", "unwind"}

\* C1: the aggregate error of a pass is computed only after every job the
\* pass dispatched has finished, under every interleaving of the jobs: no
\* job runs (and so none writes a score) once the aggregate is computed, and
\* no job of the next pass starts before the pass has returned.
C1_Barrier ==
    /\ ppc \in {"calc", "returned"} =>
        /\ Len(futures) = Len(batches)
        /\ \A j \in 1..Len(futures) : futures[j].state = "finished"
    /\ \A j \in 1..Len(futures) :
        /\ futures[j].pass = pass_no
        /\ futures[j].state \in {"running", "in_run_engine"} =>
               /\ ppc \in InPass
               /\ pc \in {"init_pass", "plus", "minus"}

\* Reached: the second pass has returned its aggregate after several jobs,
\* more of them than the pool has threads.
C1_Witness ==
    /\ ppc = "returned"
    /\ pass_no >= 2
    /\ Len(futures) > concurrent_workers
    /\ concurrent_workers >= 2

\* C2: in a pass in which every reply has the right number of integers,
\* every position of the corpus has its score written exactly once, by the
\* job that owns its batch, and after the pass its score is the integer the
\* engine answered for it in this pass.
C2_ScoredOncePerPass ==
    (ppc = "returned" /\ ~mismatch) =>
        \A p \in 1..Len(test_positions) :
            /\ writes[p] = 1
            /\ answered[p] = <<score[p]>>

\* ------------------------------------------------------------------------
\* Failures: of a worker job, and of the shutdown of a session
\* ------------------------------------------------------------------------

\* Some job of the pass ended with an exception.
JobFailed == \E j \in 1..Len(futures) : futures[j].exception # "none"

\* The positions of the chunk run_engine failed in and of the later chunks
\* of its batch.
FailedChunks ==
    LET ch == EChunks
    IN  UNION {{ch[c][i] : i \in 1..Len(ch[c])} : c \in ech..Len(ch)}

\* C11: a job that ends with an exception (none of them is the shutdown
\* timeout) does not abort the program: run_pass leaves its with block by
\* an exception only for the IndexError of the submit loop, the pass returns
\* once every job is done, what it returns is the aggregate over the scores
\* as they stand, the positions of the failed chunk and of the later chunks
\* of that batch have not been written in this pass, and main goes on with
\* the returned value as with any pass error.
C11_FailedJobNotFatal ==
    /\ ppc \in {"unwind", "raised"} => worker_id - 1 >= Len(engines)
    /\ (JobFailed /\ ppc = "returned") =>
           /\ status = "running"
           /\ pc \in {"init_pass", "plus", "minus"}
           /\ \A j \in 1..Len(futures) : FutureDone(futures[j])
           /\ pret = calc_avg_error(test_positions, score)
           /\ \A j \in 1..Len(futures) :
                  futures[j].exception # "none" =>
                      \A i \in 1..Len(batches[futures[j].batch]) :
                          writes[batches[futures[j].batch][i]] = 0
    /\ (epc = "returned" /\ eerr # "none") =>
           \A p \in FailedChunks : writes[p] = 0
    /\ (JobFailed /\ pc = "while" /\ trial # <<>>) =>
           /\ new_err = trial.err
           /\ trial.committed <=> trial.err < trial.best

\* Reached: a trial pass in which several jobs failed has returned, and the
\* search has gone on to the opposite trial with its value.
C11_Witness ==
    /\ JobFailed
    /\ Len(futures) >= 2
    /\ pc = "minus"
    /\ ppc = "returned"
    /\ new_err = trial.err

\* C12: when the program ends, Engine.stop has been called exactly once on
\* every session that was spawned and every session's process has ended, on
\* every path that leads there.
C12_EveryEngineStoppedOnce ==
    pc = "exit" =>
        \A k \in 1..Len(engines) :
            /\ stops[k] = 1
            /\ engines[k] = "stopped"

\* C13: when a session does not exit within the grace period, its process
\* is killed all the same, the timeout ends the program, and Engine.stop is
\* still called on every session that remains.
C13_TimeoutKillsAndGoesOn ==
    /\ status = "TimeoutExpired" => pc = "exit"
    /\ (pc = "exit" /\ status = "TimeoutExpired") =>
           /\ engines[si] = "stopped"
           /\ \A k \in 1..Len(engines) : stops[k] >= 1

\* ------------------------------------------------------------------------
\* Batches and sessions
\* ------------------------------------------------------------------------

\* C23: a pass never has more batches than sessions were spawned
\* (concurrent_workers + 1); every batch is submitted with a session that
\* exists, so the submit loop never fails on engines[worker_id - 1]; the
\* k-th batch goes with the k-th session, in every pass, and no two jobs of
\* a pass have the same session.
C23_BatchesFitSessions ==
    /\ Len(batches) <= concurrent_workers + 1
    /\ Len(batches) <= Len(engines)
    /\ ppc \notin {"unwind", "raised"}
    /\ status # "IndexError"
    /\ \A j \in 1..Len(futures) :
           /\ futures[j].engine \in 1..Len(engines)
           /\ futures[j].engine = j
           /\ futures[j].batch = j
           /\ \A k \in 1..Len(futures) :
                  futures[k].engine = futures[j].engine => k = j

\* ------------------------------------------------------------------------
\* The values a trial pass runs with
\* ------------------------------------------------------------------------

\* The options in which two lists of values differ.
Differing(a, b) == {j \in 1..Len(a) : a[j] # b[j]}

\* C25: while a trial of option oi is under way, the values the pass was
\* called with are the working values, and they differ from the values that
\* gave best_err in option oi alone, by its step: +step * direction in the
\* first trial and -step * direction in the opposite one; between trials
\* (inside the loop, and once it has been left) the working values are the
\* values that gave best_err.
C25_OneOptionOneStep ==
    /\ pc \in {"plus", "minus"} =>
           LET option == tuning_options[oi]
               delta == sent_values[oi] - best_values[oi]
           IN  /\ sent_values = ValuesOf(tuning_options)
               /\ Differing(sent_values, best_values) = {oi}
               /\ delta \in {option.steps, -option.steps}
               /\ delta = IF pc = "plus"
                          THEN option.steps * option.direction
                          ELSE -(option.steps * option.direction)
               /\ option.steps \in {16, 4, 1}
    /\ (pc \in {"while", "for", "sweep_end", "final"} \/ decision = "halt") =>
           ValuesOf(tuning_options) = best_values

\* Reached: the opposite trial, at step 4 and against its flipped
\* direction, of an option whose committed value is no longer its first,
\* while another option has a committed value too.
C25_Witness ==
    /\ pc = "minus"
    /\ ppc = "called"
    /\ tuning_options[oi].steps = 4
    /\ tuning_options[oi].direction = -1
    /\ sent_values[oi] = best_values[oi] + 4
    /\ \A j \in 1..Len(best_values) : best_values[j] # InitValue

\* ------------------------------------------------------------------------
\* Termination of the search
\* ------------------------------------------------------------------------

\* The search loop has been left after a sweep that called for a halt and
\* the result file holds the final best values.
LoopExited ==
    /\ decision = "halt"
    /\ result_file = best_values
    /\ result_file = ValuesOf(best_options)

\* The part of C24 about the loop alone: with every pass returning an error
\* of 0..MaxErr, the loop is left after finitely many sweeps, the final
\* values are written and the program reaches its end.
C24_LoopTerminates == <>(pc = "exit" /\ LoopExited)

\* C24: with every pass returning an error of 0..MaxErr the program comes
\* to its end after finitely many sweeps, and when it has, the loop has
\* been left, the final values are written and every session is stopped.
C24_TerminatesAllStopped ==
    /\ <>(pc = "exit")
    /\ [](pc = "exit" =>
              /\ LoopExited
              /\ \A k \in 1..Len(engines) : engines[k] = "stopped")

====
